---------------------------- MODULE Spec2Model ----------------------------
(***************************************************************************)
(* FreeMatchTrainer (src/trainer.py): the constructor with resume and      *)
(* warmup, and the train() loop with its plain and sharpness-aware steps,  *)
(* the pseudo-label bank, the evaluation cadence and the checkpoints.      *)
(*                                                                         *)
(* Two specifications share the variables:                                 *)
(*   SpecCtor   __init__ from line 113 on: resume, warmup_train, validate  *)
(*   SpecTrain  train(): one action per statement group of the loop body   *)
(*                                                                         *)
(* Tensors whose arithmetic matters (parameters, gradients, perturbation)  *)
(* are numbers with None/NaN/Inf.  Tensors whose provenance matters        *)
(* (logits, softmax rows, the statistics tau/p/h) are records naming the   *)
(* forward pass, the view, the row and the iteration that produced them.   *)
(***************************************************************************)
EXTENDS Integers, Sequences, FiniteSets

\* ------------------------------------------------------------- bounds
MaxTrainIters == 3
MaxEvalIters == 2
MaxWarmupIters == 2
MaxStartIter == 1
MaxCkptIter == 2
MaxLoader == 3
LossScale == 2

\* cfg.RHO, in the fixed-point unit of the gradients below
RHO == 10

\* accuracy levels validate() can report, and the unlabeled dataset
AccVals == {1, 2}
Samples == {1, 2}
\* batch_ulb['idx']: the sample index of each row
Batches == {<<1>>, <<2, 1>>}
ParamIds == {1, 2}

\* ------------------------------------------------------------- numbers
Num(n) == [k |-> "num", v |-> n]
NoneV == [k |-> "none", v |-> 0]
NaNV == [k |-> "nan", v |-> 0]
InfV == [k |-> "inf", v |-> 0]

\* x + y on floats: NaN is absorbing, Inf + finite is Inf
VAdd(x, y) ==
    IF x.k = "nan" \/ y.k = "nan" THEN NaNV
    ELSE IF x.k = "inf" \/ y.k = "inf" THEN InfV
    ELSE Num(x.v + y.v)

\* x - y on floats: Inf - Inf is NaN
VSub(x, y) ==
    IF x.k = "nan" \/ y.k = "nan" THEN NaNV
    ELSE IF x.k = "inf" /\ y.k = "inf" THEN NaNV
    ELSE IF x.k = "inf" \/ y.k = "inf" THEN InfV
    ELSE Num(x.v - y.v)

\* x * y on floats: 0 * Inf is NaN
VMul(x, y) ==
    IF x.k = "nan" \/ y.k = "nan" THEN NaNV
    ELSE IF x.k = "inf" \/ y.k = "inf"
         THEN IF (x.k = "num" /\ x.v = 0) \/ (y.k = "num" /\ y.v = 0) THEN NaNV ELSE InfV
    ELSE Num(x.v * y.v)

\* rho / norm: a float division, x / 0 is Inf for x > 0
VDiv(n, d) ==
    IF d.k = "nan" THEN NaNV
    ELSE IF d.k = "inf" THEN Num(0)
    ELSE IF d.v = 0 THEN (IF n = 0 THEN NaNV ELSE InfV)
    ELSE Num(n \div d.v)

ISqrt(n) == CHOOSE r \in 0..n : r * r <= n /\ (r + 1) * (r + 1) > n

RECURSIVE SumSq(_, _)
SumSq(g, S) ==
    IF S = {} THEN 0
    ELSE LET i == CHOOSE j \in S : TRUE
         IN (IF g[i].k = "num" THEN g[i].v * g[i].v ELSE 0) + SumSq(g, S \ {i})

\* norm(tensor_list): torch.cat of the entries that are not None, then the 2-norm;
\* torch.cat of an empty list raises (err = "norm")
NormRaises(g) == \A i \in ParamIds : g[i].k = "none"
Norm(g) ==
    IF \E i \in ParamIds : g[i].k = "nan" THEN NaNV
    ELSE Num(ISqrt(SumSq(g, {i \in ParamIds : g[i].k = "num"})))

\* the first-pass gradients torch.autograd.grad(loss_lb, parameters, allow_unused=True)
\* can return: every entry None, all zero, a regular one, one with an unused parameter
GradChoices ==
    { <<NoneV, NoneV>>, <<Num(0), Num(0)>>, <<Num(3), Num(4)>>, <<Num(2), NoneV>> }

\* ------------------------------------------------------------- tensors by provenance
\* the output of forward pass `pass` (1 or 2) of train iteration `it`
Logits(it, pass) == [it |-> it, pass |-> pass, view |-> "all", row |-> 0, sm |-> FALSE]
NoLogits == [it |-> 0, pass |-> 0, view |-> "none", row |-> 0, sm |-> FALSE]
\* logits[:num_lb] and logits[num_lb:].chunk(2)
SliceLb(l) == [l EXCEPT !.view = "lb"]
SliceW(l) == [l EXCEPT !.view = "w"]
SliceS(l) == [l EXCEPT !.view = "s"]
\* torch.softmax(x, dim=-1), and row j of a batch tensor
Softmax(l) == [l EXCEPT !.sm = TRUE]
RowOf(l, j) == [l EXCEPT !.row = j]
\* torch.ones(num_samples, C) / C : one row of the initial bank
UniformRow == [it |-> 0, pass |-> 0, view |-> "uniform", row |-> 0, sm |-> TRUE]

\* one statistic (tau_t, p_t or label_hist) by where its value came from
Stat(src, n) == [src |-> src, n |-> n]
StatsOf(src, n) == [tau_t |-> Stat(src, n), p_t |-> Stat(src, n), label_hist |-> Stat(src, n)]
InitStats == StatsOf("uniform", 0)

VARIABLES
    cfg, ckpt, pc, err,
    curr_iter, best_test_iter, best_test_acc, stats,
    training, running_stats,
    params, pgrad, applied, optimSteps, schedSteps, emaUpdates,
    lbFetched, ulbFetched,
    label_bank_w, label_bank_s,
    iterNo, idx, logits, logits_hat, grad_w, eps, theta0,
    satRet, satArgs, safArgs, poArgs, loss, loss_lb, loss_po,
    stepTrace, files, evals, visits, entry, perturbed, fwd, sizes_equal

cfgVars == <<cfg, ckpt, entry>>
trainerVars == <<curr_iter, best_test_iter, best_test_acc, stats>>
modeVars == <<training, running_stats>>
modelVars == <<params, pgrad, applied, optimSteps, schedSteps, emaUpdates>>
loaderVars == <<lbFetched, ulbFetched>>
bankVars == <<label_bank_w, label_bank_s>>
passVars == <<logits, logits_hat, grad_w, eps, theta0>>
lossVars == <<satRet, satArgs, safArgs, poArgs, loss, loss_lb, loss_po>>
\* perturbed: eps has been added to the weights and not yet subtracted;
\* fwd: the training forward passes of the current iteration, each with the state of
\* the running-statistics tracking and of the weights it ran under
\* sizes_equal: num_ulb == img_ulb_s.shape[0] for the batch of the current iteration
iterVars == <<iterNo, idx, visits, perturbed, fwd, sizes_equal>>
outVars == <<files, evals>>

vars == <<cfgVars, pc, err, trainerVars, modeVars, modelVars, loaderVars, bankVars,
          passVars, lossVars, iterVars, stepTrace, outVars>>


\* ------------------------------------------------------------- checkpoints
\* the record __save__model__ builds; model/ema/optim/sched state dicts are the
\* number of steps they have absorbed
SaveDict(ci, bi, ba) ==
    [present |-> TRUE,
     model |-> optimSteps, ema |-> emaUpdates, optim |-> optimSteps, sched |-> schedSteps,
     curr_iter |-> ci, best_test_iter |-> bi, best_test_acc |-> ba, stats |-> stats]

NoFile ==
    [present |-> FALSE, model |-> 0, ema |-> 0, optim |-> 0, sched |-> 0,
     curr_iter |-> 0, best_test_iter |-> -1, best_test_acc |-> -1, stats |-> InitStats]

\* the files cfg.RESUME can name: written by __save__model__ in an earlier run, in the
\* evaluation of the iteration with curr_iter = k (k + 1 steps done, counter not yet
\* incremented), with the best accuracy found at some iteration b <= k
CkptFiles ==
    UNION { { [present |-> TRUE, model |-> k + 1, ema |-> k + 1, optim |-> k + 1,
               sched |-> k + 1, curr_iter |-> k, best_test_iter |-> b, best_test_acc |-> a,
               stats |-> StatsOf("ckpt", k)] : b \in 0..k, a \in AccVals } :
            k \in 0..MaxCkptIter }

NoEntry == [curr_iter |-> 0, best_test_iter |-> -1, best_test_acc |-> -1, steps |-> 0]

\* the locals of train() before train() runs, and the fields no phase has touched
LocalsInit ==
    /\ err = "none"
    /\ params = [i \in ParamIds |-> Num(0)]
    /\ pgrad = [i \in ParamIds |-> NoneV]
    /\ applied = [i \in ParamIds |-> NoneV]
    /\ lbFetched = 0 /\ ulbFetched = 0
    /\ label_bank_w = [i \in Samples |-> UniformRow]
    /\ label_bank_s = [i \in Samples |-> UniformRow]
    /\ iterNo = 0 /\ idx = <<>> /\ visits = <<>>
    /\ perturbed = FALSE /\ fwd = <<>> /\ sizes_equal = TRUE
    /\ logits = NoLogits /\ logits_hat = NoLogits
    /\ grad_w = [i \in ParamIds |-> NoneV] /\ eps = [i \in ParamIds |-> NoneV]
    /\ theta0 = [i \in ParamIds |-> Num(0)]
    /\ satRet = InitStats
    /\ satArgs = [logits_w |-> NoLogits, logits_s |-> NoLogits, stats |-> InitStats]
    /\ safArgs = [logits_s |-> NoLogits, p_t |-> Stat("uniform", 0), label_hist |-> Stat("uniform", 0)]
    /\ poArgs = [g |-> NoLogits, s |-> NoLogits, prev_w |-> <<>>, prev_s |-> <<>>]
    /\ loss = {} /\ loss_lb = NoLogits /\ loss_po = FALSE
    /\ stepTrace = <<>>
    /\ files = [best |-> NoFile, last |-> NoFile]
    /\ evals = <<>>

\* ------------------------------------------------------------- __init__
\* the state at line 113: the class params of lines 101-107 are set, the model and
\* the EMA wrapper are in train mode, nothing is loaded yet
InitCtor ==
    /\ cfg \in [x_sharp : {TRUE}, amp : BOOLEAN, poloss : {TRUE}, use_tb : {TRUE},
                cont_train : BOOLEAN, num_train_iters : {MaxTrainIters}, num_eval_iters : {1},
                num_warmup_iters : 0..MaxWarmupIters]
    /\ ckpt \in (IF cfg.cont_train THEN CkptFiles ELSE {NoFile})
    /\ entry = NoEntry
    /\ pc = "ctor"
    /\ curr_iter = 0 /\ best_test_iter = -1 /\ best_test_acc = -1
    /\ stats = InitStats
    /\ training = TRUE /\ running_stats = TRUE
    /\ optimSteps = 0 /\ schedSteps = 0 /\ emaUpdates = 0
    /\ LocalsInit

\* __load__model__
LoadModel ==
    /\ optimSteps' = ckpt.optim
    /\ emaUpdates' = ckpt.ema
    /\ schedSteps' = ckpt.sched
    /\ curr_iter' = ckpt.curr_iter
    /\ stats' = ckpt.stats
    /\ best_test_iter' = ckpt.best_test_iter
    /\ best_test_acc' = ckpt.best_test_acc

\* CtorResume entering warmup_train() whatever the budget
CtorResume_AlwaysWarmup ==
    /\ pc = "ctor"
    /\ IF cfg.cont_train THEN LoadModel
       ELSE UNCHANGED <<optimSteps, emaUpdates, schedSteps, trainerVars>>
    /\ pc' = "w_fetch"
    /\ training' = TRUE
    /\ UNCHANGED <<cfgVars, err, running_stats, params, pgrad, applied, loaderVars, bankVars,
                   passVars, lossVars, iterVars, stepTrace, outVars>>

\* lines 114-121: load if cfg.CONT_TRAIN, then enter warmup_train() if the budget is > 0
CtorResume ==
    /\ pc = "ctor"
    /\ IF cfg.cont_train THEN LoadModel
       ELSE UNCHANGED <<optimSteps, emaUpdates, schedSteps, trainerVars>>
    /\ pc' = IF cfg.num_warmup_iters > 0 THEN "w_fetch" ELSE "toggle"
    /\ training' = TRUE
    /\ UNCHANGED <<cfgVars, err, running_stats, params, pgrad, applied, loaderVars, bankVars,
                   passVars, lossVars, iterVars, stepTrace, outVars>>

\* line 145: the labeled loader has no further batch, the for loop ends
WarmupExhausted ==
    /\ pc = "w_fetch"
    /\ pc' = "w_validate"
    /\ UNCHANGED <<cfgVars, err, trainerVars, modeVars, modelVars, loaderVars, bankVars,
                   passVars, lossVars, iterVars, stepTrace, outVars>>

\* lines 145-149: the loader yields a batch; the budget test resets the counter and breaks
WarmupFetch ==
    /\ pc = "w_fetch"
    /\ lbFetched < MaxLoader
    /\ lbFetched' = lbFetched + 1
    /\ IF curr_iter >= cfg.num_warmup_iters
       THEN curr_iter' = 0 /\ pc' = "w_validate"
       ELSE curr_iter' = curr_iter /\ pc' = "w_step"
    /\ UNCHANGED <<cfgVars, err, best_test_iter, best_test_acc, stats, modeVars, modelVars,
                   ulbFetched, bankVars, passVars, lossVars, iterVars, stepTrace, outVars>>

\* scaler.scale(loss).backward() / loss.backward(): gradients accumulate into p.grad
Accumulate(old, g) == IF old.k = "none" THEN g ELSE VAdd(old, g)
\* scaler.step(optimizer) unscales p.grad before the optimizer applies it
Unscale(g) == IF g.k = "num" THEN Num(g.v \div LossScale) ELSE g

\* lines 155-169: forward, CE loss, backward and optimizer step on the labeled batch
\* (no zero_grad, no schedule step, no EMA update in warmup)
WarmupStep ==
    /\ pc = "w_step"
    /\ LET s == IF cfg.amp THEN LossScale ELSE 1
           g == [i \in ParamIds |-> Accumulate(pgrad[i], VMul(Num(s), Num(1)))]
       IN /\ pgrad' = g
          /\ applied' = [i \in ParamIds |-> IF cfg.amp THEN Unscale(g[i]) ELSE g[i]]
    /\ optimSteps' = optimSteps + 1
    /\ pc' = "w_stats"
    /\ UNCHANGED <<cfgVars, err, trainerVars, modeVars, params, schedSteps, emaUpdates,
                   loaderVars, bankVars, passVars, lossVars, iterVars, stepTrace, outVars>>

\* WarmupStats overwriting p_t and label_hist only, the threshold kept
WarmupStats_TauKept ==
    /\ pc = "w_stats"
    /\ curr_iter' = curr_iter + 1
    /\ training' = FALSE
    /\ stats' = [StatsOf("warmup", optimSteps) EXCEPT !.tau_t = stats.tau_t]
    /\ pc' = "w_fetch"
    /\ UNCHANGED <<cfgVars, err, best_test_iter, best_test_acc, running_stats, modelVars,
                   loaderVars, bankVars, passVars, lossVars, iterVars, stepTrace, outVars>>

\* lines 184-204: count the iteration, switch the model to eval mode, overwrite
\* tau_t, p_t, label_hist from the test loader with the current weights
WarmupStats ==
    /\ pc = "w_stats"
    /\ curr_iter' = curr_iter + 1
    /\ training' = FALSE
    /\ stats' = StatsOf("warmup", optimSteps)
    /\ pc' = "w_fetch"
    /\ UNCHANGED <<cfgVars, err, best_test_iter, best_test_acc, running_stats, modelVars,
                   loaderVars, bankVars, passVars, lossVars, iterVars, stepTrace, outVars>>

\* lines 122-124: validate() after warmup: net.eval() ... net.train()
PostWarmupValidate ==
    /\ pc = "w_validate"
    /\ training' = TRUE
    /\ pc' = "toggle"
    /\ UNCHANGED <<cfgVars, err, trainerVars, running_stats, modelVars, loaderVars, bankVars,
                   passVars, lossVars, iterVars, stepTrace, outVars>>

\* line 126: __toggle__device__ moves p_t and tau_t; the constructor returns
ToggleDevice ==
    /\ pc = "toggle"
    /\ pc' = "ready"
    /\ UNCHANGED <<cfgVars, err, trainerVars, modeVars, modelVars, loaderVars, bankVars,
                   passVars, lossVars, iterVars, stepTrace, outVars>>

NextCtor ==
    \/ CtorResume
    \/ WarmupExhausted
    \/ WarmupFetch
    \/ WarmupStep
    \/ WarmupStats
    \/ PostWarmupValidate
    \/ ToggleDevice

SpecCtor == InitCtor /\ [][NextCtor]_vars


\* ------------------------------------------------------------- train()
\* the states train() is entered in: a fresh trainer (no resume, no warmup), or a
\* trainer resumed from the checkpoint of iteration k
TrainEntries ==
    { [cont |-> FALSE, curr_iter |-> 0, best_test_iter |-> -1, best_test_acc |-> -1,
       steps |-> 0, stats |-> InitStats] }
    \cup
    { [cont |-> TRUE, curr_iter |-> k, best_test_iter |-> 0, best_test_acc |-> 2,
       steps |-> k + 1, stats |-> StatsOf("ckpt", k)] : k \in 0..MaxStartIter }

InitTrain ==
    /\ \E e \in TrainEntries :
          /\ cfg \in [x_sharp : BOOLEAN, amp : BOOLEAN, poloss : BOOLEAN, use_tb : BOOLEAN,
                      cont_train : {e.cont}, num_train_iters : 1..MaxTrainIters, num_eval_iters : 1..MaxEvalIters,
                      num_warmup_iters : {0}]
          /\ entry = [curr_iter |-> e.curr_iter, best_test_iter |-> e.best_test_iter,
                      best_test_acc |-> e.best_test_acc, steps |-> e.steps]
          /\ curr_iter = e.curr_iter
          /\ best_test_iter = e.best_test_iter
          /\ best_test_acc = e.best_test_acc
          /\ stats = e.stats
          /\ optimSteps = e.steps /\ schedSteps = e.steps /\ emaUpdates = e.steps
    /\ ckpt = NoFile
    /\ pc = "train"
    /\ training = TRUE /\ running_stats = TRUE
    /\ LocalsInit

\* lines 208-223: model.train(), and the two banks filled with 1/C
TrainBegin ==
    /\ pc = "train"
    /\ training' = TRUE
    /\ label_bank_w' = [i \in Samples |-> UniformRow]
    /\ label_bank_s' = [i \in Samples |-> UniformRow]
    /\ pc' = "fetch"
    /\ UNCHANGED <<cfgVars, err, trainerVars, running_stats, modelVars, loaderVars,
                   passVars, lossVars, iterVars, stepTrace, outVars>>

\* line 224: zip() asks the labeled loader first; it has no further batch
LbExhausted ==
    /\ pc = "fetch"
    /\ pc' = "done"
    /\ UNCHANGED <<cfgVars, err, trainerVars, modeVars, modelVars, loaderVars, bankVars,
                   passVars, lossVars, iterVars, stepTrace, outVars>>

\* line 224: the labeled loader yields, the unlabeled loader has no further batch
UlbExhausted ==
    /\ pc = "fetch"
    /\ lbFetched < MaxLoader
    /\ lbFetched' = lbFetched + 1
    /\ pc' = "done"
    /\ UNCHANGED <<cfgVars, err, trainerVars, modeVars, modelVars, ulbFetched, bankVars,
                   passVars, lossVars, iterVars, stepTrace, outVars>>

\* lines 224-227: both loaders yield and the budget is used up: break
BudgetBreak ==
    /\ pc = "fetch"
    /\ lbFetched < MaxLoader /\ ulbFetched < MaxLoader
    /\ curr_iter >= cfg.num_train_iters
    /\ lbFetched' = lbFetched + 1 /\ ulbFetched' = ulbFetched + 1
    /\ pc' = "done"
    /\ UNCHANGED <<cfgVars, err, trainerVars, modeVars, modelVars, bankVars,
                   passVars, lossVars, iterVars, stepTrace, outVars>>

\* Fetch without the assertion: an iteration with unequal batch sizes goes on
Fetch_NoAssert ==
    /\ pc = "fetch"
    /\ lbFetched < MaxLoader /\ ulbFetched < MaxLoader
    /\ curr_iter < cfg.num_train_iters
    /\ lbFetched' = lbFetched + 1 /\ ulbFetched' = ulbFetched + 1
    /\ \E b \in Batches : idx' = b /\ visits' = Append(visits, b)
    /\ iterNo' = iterNo + 1
    /\ stepTrace' = <<>>
    /\ fwd' = <<>> /\ perturbed' = perturbed
    /\ \E same \in BOOLEAN : sizes_equal' = same
    /\ pc' = "forward1" /\ err' = err
    /\ UNCHANGED <<cfgVars, trainerVars, modeVars, modelVars, bankVars,
                   passVars, lossVars, outVars>>

\* lines 224-244: both loaders yield a batch and the iteration starts; the weak and
\* the strong unlabeled batch have the same size (`same`) or the assertion of line 242
\* fails (err = "assert")
Fetch ==
    /\ pc = "fetch"
    /\ lbFetched < MaxLoader /\ ulbFetched < MaxLoader
    /\ curr_iter < cfg.num_train_iters
    /\ lbFetched' = lbFetched + 1 /\ ulbFetched' = ulbFetched + 1
    /\ \E b \in Batches : idx' = b /\ visits' = Append(visits, b)
    /\ iterNo' = iterNo + 1
    /\ stepTrace' = <<>>
    /\ fwd' = <<>> /\ perturbed' = perturbed
    /\ \E same \in BOOLEAN :
          /\ sizes_equal' = same
          /\ IF same THEN pc' = "forward1" /\ err' = err
             ELSE pc' = "error" /\ err' = "assert"
    /\ UNCHANGED <<cfgVars, trainerVars, modeVars, modelVars, bankVars,
                   passVars, lossVars, outVars>>

\* Forward1 without the call of enable_running_stats
Forward1_NoEnable ==
    /\ pc = "forward1"
    /\ running_stats' = running_stats
    /\ logits' = Logits(iterNo, 1)
    /\ fwd' = Append(fwd, [pass |-> 1, tracking |-> running_stats', perturbed |-> perturbed])
    /\ loss_lb' = SliceLb(logits')
    /\ pc' = IF cfg.x_sharp THEN "grad" ELSE "sat"
    /\ UNCHANGED <<cfgVars, err, trainerVars, training, modelVars, loaderVars, bankVars,
                   logits_hat, grad_w, eps, theta0, satRet, satArgs, safArgs, poArgs, loss,
                   loss_po, iterNo, idx, visits, perturbed, sizes_equal, stepTrace, outVars>>

\* lines 245-253: enable_running_stats in sharpness-aware mode, the first forward
\* pass and the labeled loss
Forward1 ==
    /\ pc = "forward1"
    /\ running_stats' = IF cfg.x_sharp THEN TRUE ELSE running_stats
    /\ logits' = Logits(iterNo, 1)
    /\ fwd' = Append(fwd, [pass |-> 1, tracking |-> running_stats', perturbed |-> perturbed])
    /\ loss_lb' = SliceLb(logits')
    /\ pc' = IF cfg.x_sharp THEN "grad" ELSE "sat"
    /\ UNCHANGED <<cfgVars, err, trainerVars, training, modelVars, loaderVars, bankVars,
                   logits_hat, grad_w, eps, theta0, satRet, satArgs, safArgs, poArgs, loss,
                   loss_po, iterNo, idx, visits, perturbed, sizes_equal, stepTrace, outVars>>

\* SelfAdaptiveThresholdLoss: the statistics it returns are the EMA of the old ones
\* with the weak-view probabilities of the batch it is given
SatCriterion(logits_w, logits_s, st) == StatsOf("sat", logits_w.it)

\* lines 256-258: the adaptive-threshold loss, its statistics assigned to the trainer
SatPlain ==
    /\ pc = "sat" /\ ~cfg.x_sharp
    /\ satArgs' = [logits_w |-> SliceW(logits), logits_s |-> SliceS(logits), stats |-> stats]
    /\ satRet' = SatCriterion(SliceW(logits), SliceS(logits), stats)
    /\ stats' = satRet'
    /\ pc' = "saf"
    /\ UNCHANGED <<cfgVars, err, curr_iter, best_test_iter, best_test_acc, modeVars, modelVars,
                   loaderVars, bankVars, passVars, safArgs, poArgs, loss, loss_lb, loss_po,
                   iterVars, stepTrace, outVars>>

\* lines 260-261: the fairness loss and the composite loss
SafPlain ==
    /\ pc = "saf" /\ ~cfg.x_sharp
    /\ safArgs' = [logits_s |-> SliceS(logits), p_t |-> stats.p_t, label_hist |-> stats.label_hist]
    /\ loss' = {"lb", "sat", "saf"}
    /\ pc' = "backward"
    /\ UNCHANGED <<cfgVars, err, trainerVars, modeVars, modelVars, loaderVars, bankVars,
                   passVars, satRet, satArgs, poArgs, loss_lb, loss_po, iterVars, stepTrace,
                   outVars>>

\* lines 264-267: the first-pass gradient, its norm, the scale and the perturbation
FirstGrad ==
    /\ pc = "grad"
    /\ \E g \in GradChoices :
          /\ grad_w' = g
          /\ IF NormRaises(g)
             THEN /\ pc' = "error" /\ err' = "norm"
                  /\ eps' = eps
             ELSE /\ pc' = "perturb" /\ err' = err
                  /\ eps' = [i \in ParamIds |->
                               IF g[i].k = "none" THEN NoneV
                               ELSE VMul(g[i], VDiv(RHO, Norm(g)))]
    /\ UNCHANGED <<cfgVars, trainerVars, modeVars, modelVars, loaderVars, bankVars,
                   logits, logits_hat, theta0, lossVars, iterVars, stepTrace, outVars>>

\* lines 270-272: p.add_(v) for every v that is not None
Perturb ==
    /\ pc = "perturb"
    /\ theta0' = params
    /\ params' = [i \in ParamIds |->
                    IF eps[i].k # "none" THEN VAdd(params[i], eps[i]) ELSE params[i]]
    /\ perturbed' = TRUE
    /\ pc' = "forward2"
    /\ UNCHANGED <<cfgVars, err, trainerVars, modeVars, pgrad, applied, optimSteps, schedSteps,
                   emaUpdates, loaderVars, bankVars, logits, logits_hat, grad_w, eps,
                   lossVars, iterNo, idx, visits, fwd, sizes_equal, stepTrace, outVars>>

\* lines 275-282: running statistics off, the second forward pass, the labeled loss again
Forward2 ==
    /\ pc = "forward2"
    /\ running_stats' = FALSE
    /\ logits_hat' = Logits(iterNo, 2)
    /\ fwd' = Append(fwd, [pass |-> 2, tracking |-> running_stats', perturbed |-> perturbed])
    /\ loss_lb' = SliceLb(logits_hat')
    /\ pc' = "sat"
    /\ UNCHANGED <<cfgVars, err, trainerVars, training, modelVars, loaderVars, bankVars,
                   logits, grad_w, eps, theta0, satRet, satArgs, safArgs, poArgs, loss,
                   loss_po, iterNo, idx, visits, perturbed, sizes_equal, stepTrace, outVars>>

\* SatSharp with only the threshold assigned back to the trainer
SatSharp_TauOnly ==
    /\ pc = "sat" /\ cfg.x_sharp
    /\ satArgs' = [logits_w |-> SliceW(logits), logits_s |-> SliceS(logits_hat), stats |-> stats]
    /\ satRet' = SatCriterion(SliceW(logits), SliceS(logits_hat), stats)
    /\ stats' = [stats EXCEPT !.tau_t = satRet'.tau_t]
    /\ pc' = "saf"
    /\ UNCHANGED <<cfgVars, err, curr_iter, best_test_iter, best_test_acc, modeVars, modelVars,
                   loaderVars, bankVars, passVars, safArgs, poArgs, loss, loss_lb, loss_po,
                   iterVars, stepTrace, outVars>>

\* lines 284-285: the adaptive-threshold loss of the sharpness-aware step
SatSharp ==
    /\ pc = "sat" /\ cfg.x_sharp
    /\ satArgs' = [logits_w |-> SliceW(logits), logits_s |-> SliceS(logits_hat), stats |-> stats]
    /\ satRet' = SatCriterion(SliceW(logits), SliceS(logits_hat), stats)
    /\ stats' = satRet'
    /\ pc' = "saf"
    /\ UNCHANGED <<cfgVars, err, curr_iter, best_test_iter, best_test_acc, modeVars, modelVars,
                   loaderVars, bankVars, passVars, safArgs, poArgs, loss, loss_lb, loss_po,
                   iterVars, stepTrace, outVars>>

\* line 287: the fairness loss of the sharpness-aware step
SafSharp ==
    /\ pc = "saf" /\ cfg.x_sharp
    /\ safArgs' = [logits_s |-> SliceS(logits_hat), p_t |-> stats.p_t,
                   label_hist |-> stats.label_hist]
    /\ pc' = "po"
    /\ UNCHANGED <<cfgVars, err, trainerVars, modeVars, modelVars, loaderVars, bankVars,
                   passVars, satRet, satArgs, poArgs, loss, loss_lb, loss_po, iterVars,
                   stepTrace, outVars>>

\* BankRead indexing the bank by row number instead of by sample index
BankRead_ByRow(bank, ix) == [j \in 1..Len(ix) |-> bank[j]]

\* label_bank[idx]: the bank rows of the batch's sample indices, in row order
BankRead(bank, ix) == [j \in 1..Len(ix) |-> bank[ix[j]]]

\* lines 289-311: read the bank, this pass's softmax, the consistency term, the loss
PoLoss ==
    /\ pc = "po"
    /\ poArgs' = [g |-> Softmax(SliceW(logits_hat)), s |-> Softmax(SliceS(logits_hat)),
                  prev_w |-> BankRead(label_bank_w, idx),
                  prev_s |-> BankRead(label_bank_s, idx)]
    /\ loss_po' = TRUE
    /\ loss' = IF cfg.poloss THEN {"lb", "sat", "saf", "po"} ELSE {"lb", "sat", "saf"}
    /\ pc' = "bank"
    /\ UNCHANGED <<cfgVars, err, trainerVars, modeVars, modelVars, loaderVars, bankVars,
                   passVars, satRet, satArgs, safArgs, loss_lb, iterVars, stepTrace, outVars>>

\* BankStore writing row j to bank entry j instead of to sample ix[j]
BankStore_ByRow(bank, ix, rows) ==
    [i \in Samples |-> IF i \in 1..Len(ix) THEN RowOf(rows, i) ELSE bank[i]]

\* label_bank[idx] = rows: row j of the tensor goes to sample ix[j], the rest stays
BankStore(bank, ix, rows) ==
    [i \in Samples |->
        IF \E j \in 1..Len(ix) : ix[j] = i
        THEN RowOf(rows, CHOOSE j \in 1..Len(ix) : ix[j] = i)
        ELSE bank[i]]

\* lines 313-314: overwrite the bank rows of the batch
BankWrite ==
    /\ pc = "bank"
    /\ label_bank_w' = BankStore(label_bank_w, idx, poArgs.g)
    /\ label_bank_s' = BankStore(label_bank_s, idx, poArgs.s)
    /\ pc' = "backward"
    /\ UNCHANGED <<cfgVars, err, trainerVars, modeVars, modelVars, loaderVars,
                   passVars, lossVars, iterVars, stepTrace, outVars>>

\* lines 317 / 327: backward of the (scaled) loss at the current weights; a parameter
\* the loss does not reach keeps p.grad = None
Backward ==
    /\ pc = "backward"
    /\ LET s == IF cfg.amp THEN LossScale ELSE 1
       IN pgrad' = [i \in ParamIds |->
                      IF cfg.x_sharp /\ grad_w[i].k = "none" THEN pgrad[i]
                      ELSE IF params[i].k = "nan" THEN NaNV
                      ELSE Accumulate(pgrad[i], VMul(Num(s), Num(1)))]
    /\ pc' = IF cfg.x_sharp THEN "restore" ELSE "optim"
    /\ UNCHANGED <<cfgVars, err, trainerVars, modeVars, params, applied, optimSteps,
                   schedSteps, emaUpdates, loaderVars, bankVars, passVars, lossVars,
                   iterVars, stepTrace, outVars>>

\* lines 318-323 / 328-333: p.sub_(v) and p.grad += g for every v that is not None
Restore ==
    /\ pc = "restore"
    /\ params' = [i \in ParamIds |->
                    IF eps[i].k # "none" THEN VSub(params[i], eps[i]) ELSE params[i]]
    /\ pgrad' = [i \in ParamIds |->
                    IF eps[i].k # "none" THEN VAdd(pgrad[i], grad_w[i]) ELSE pgrad[i]]
    /\ perturbed' = FALSE
    /\ pc' = "optim"
    /\ UNCHANGED <<cfgVars, err, trainerVars, modeVars, applied, optimSteps, schedSteps,
                   emaUpdates, loaderVars, bankVars, passVars, lossVars, iterNo, idx, visits,
                   fwd, sizes_equal, stepTrace, outVars>>

\* OptimStep with the optimizer step left in the plain branch only
OptimStep_PlainOnly ==
    /\ pc = "optim"
    /\ IF cfg.x_sharp
       THEN UNCHANGED <<applied, params, optimSteps, stepTrace>>
       ELSE /\ applied' = [i \in ParamIds |-> IF cfg.amp THEN Unscale(pgrad[i]) ELSE pgrad[i]]
            /\ params' = [i \in ParamIds |->
                            IF params[i].k = "nan" \/ applied'[i].k = "nan" THEN NaNV ELSE Num(0)]
            /\ optimSteps' = optimSteps + 1
            /\ stepTrace' = Append(stepTrace, "optim")
    /\ pc' = "sched"
    /\ UNCHANGED <<cfgVars, err, trainerVars, modeVars, pgrad, schedSteps, emaUpdates,
                   loaderVars, bankVars, passVars, lossVars, iterVars, outVars>>

\* lines 324-325 / 334: scaler.step(optimizer); scaler.update() or optim.step().
\* The weights are kept as the offset from where the optimizer left them, so a
\* step leaves 0, or NaN once a weight or its gradient is NaN
OptimStep ==
    /\ pc = "optim"
    /\ applied' = [i \in ParamIds |-> IF cfg.amp THEN Unscale(pgrad[i]) ELSE pgrad[i]]
    /\ params' = [i \in ParamIds |->
                    IF params[i].k = "nan" \/ applied'[i].k = "nan" THEN NaNV ELSE Num(0)]
    /\ optimSteps' = optimSteps + 1
    /\ stepTrace' = Append(stepTrace, "optim")
    /\ pc' = "sched"
    /\ UNCHANGED <<cfgVars, err, trainerVars, modeVars, pgrad, schedSteps, emaUpdates,
                   loaderVars, bankVars, passVars, lossVars, iterVars, outVars>>

\* line 336: sched.step()
SchedStep ==
    /\ pc = "sched"
    /\ schedSteps' = schedSteps + 1
    /\ stepTrace' = Append(stepTrace, "sched")
    /\ pc' = "ema"
    /\ UNCHANGED <<cfgVars, err, trainerVars, modeVars, params, pgrad, applied, optimSteps,
                   emaUpdates, loaderVars, bankVars, passVars, lossVars, iterVars, outVars>>

\* line 337: net.update()
EmaUpdate ==
    /\ pc = "ema"
    /\ emaUpdates' = emaUpdates + 1
    /\ stepTrace' = Append(stepTrace, "ema")
    /\ pc' = "log"
    /\ UNCHANGED <<cfgVars, err, trainerVars, modeVars, params, pgrad, applied, optimSteps,
                   schedSteps, loaderVars, bankVars, passVars, lossVars, iterVars, outVars>>

\* lines 338-356: model.zero_grad(), then log_dict reads loss_po, which only the
\* sharpness-aware branch assigns
LogDict ==
    /\ pc = "log"
    /\ pgrad' = [i \in ParamIds |-> NoneV]
    /\ IF loss_po
       THEN pc' = "eval" /\ err' = err
       ELSE pc' = "error" /\ err' = "loss_po"
    /\ UNCHANGED <<cfgVars, trainerVars, modeVars, params, applied, optimSteps, schedSteps,
                   emaUpdates, loaderVars, bankVars, passVars, lossVars, iterVars,
                   stepTrace, outVars>>

\* EvalDue testing the counter before the increment
EvalDue_OffByOne(ci, n) == ci % n = 0
\* Improves with a non-strict comparison
Improves_Geq(acc, best) == acc >= best

\* line 358: the evaluation cadence
EvalDue(ci, n) == (ci + 1) % n = 0
\* line 367: the test for a new best accuracy
Improves(acc, best) == acc > best

\* lines 358-380: validate(), the best bookkeeping, the best and the last checkpoint,
\* then self.tb.update, where self.tb exists only if cfg.USE_TB (err = "tb")
Evaluate ==
    /\ pc = "eval"
    /\ EvalDue(curr_iter, cfg.num_eval_iters)
    /\ \E acc \in AccVals :
          LET nb == IF Improves(acc, best_test_acc) THEN acc ELSE best_test_acc
              ni == IF Improves(acc, best_test_acc) THEN curr_iter ELSE best_test_iter
          IN /\ best_test_acc' = nb
             /\ best_test_iter' = ni
             /\ files' = [best |-> IF Improves(acc, best_test_acc)
                                   THEN SaveDict(curr_iter, ni, nb) ELSE files.best,
                          last |-> SaveDict(curr_iter, ni, nb)]
             /\ evals' = Append(evals, [it |-> curr_iter, acc |-> acc])
    /\ training' = TRUE
    /\ IF cfg.use_tb THEN pc' = "incr" /\ err' = err
       ELSE pc' = "error" /\ err' = "tb"
    /\ UNCHANGED <<cfgVars, curr_iter, stats, running_stats, modelVars, loaderVars,
                   bankVars, passVars, lossVars, iterVars, stepTrace>>

\* line 358, condition false: no evaluation in this iteration
NoEval ==
    /\ pc = "eval"
    /\ ~EvalDue(curr_iter, cfg.num_eval_iters)
    /\ pc' = "incr"
    /\ UNCHANGED <<cfgVars, err, trainerVars, modeVars, modelVars, loaderVars, bankVars,
                   passVars, lossVars, iterVars, stepTrace, outVars>>

\* lines 382-390: the log print and curr_iter += 1
IncrIter ==
    /\ pc = "incr"
    /\ curr_iter' = curr_iter + 1
    /\ pc' = "fetch"
    /\ UNCHANGED <<cfgVars, err, best_test_iter, best_test_acc, stats, modeVars, modelVars,
                   loaderVars, bankVars, passVars, lossVars, iterVars, stepTrace, outVars>>

NextTrain ==
    \/ TrainBegin
    \/ LbExhausted
    \/ UlbExhausted
    \/ BudgetBreak
    \/ Fetch
    \/ Forward1
    \/ SatPlain
    \/ SafPlain
    \/ FirstGrad
    \/ Perturb
    \/ Forward2
    \/ SatSharp
    \/ SafSharp
    \/ PoLoss
    \/ BankWrite
    \/ Backward
    \/ Restore
    \/ OptimStep
    \/ SchedStep
    \/ EmaUpdate
    \/ LogDict
    \/ Evaluate
    \/ NoEval
    \/ IncrIter

SpecTrain == InitTrain /\ [][NextTrain]_vars


\* ------------------------------------------------------------- properties of train()
IsPrefix(a, b) == Len(a) <= Len(b) /\ \A i \in 1..Len(a) : a[i] = b[i]
Count(seq, x) == Cardinality({i \in 1..Len(seq) : seq[i] = x})
StepOrder == <<"optim", "sched", "ema">>
\* the iterations before the current one
Earlier == IF iterNo = 0 THEN 0 ELSE iterNo - 1
\* no weight is NaN or Inf
Finite == \A i \in ParamIds : params[i].k = "num"

\* C1: in a TRAIN iteration the optimizer step, the schedule step and the EMA update
\* happen in that order, each at most once, and all three exactly once in every
\* iteration that gets past the update block, in both modes, with AMP or without; an
\* iteration that raises before the update block performs none of them.
C1_StepOrder ==
    /\ IsPrefix(stepTrace, StepOrder)
    /\ pc \in {"forward1", "grad", "perturb", "forward2", "sat", "saf", "po", "bank",
               "backward", "restore", "optim"} => stepTrace = <<>>
    /\ pc = "sched" => stepTrace = <<"optim">>
    /\ pc = "ema" => stepTrace = <<"optim", "sched">>
    /\ pc \in {"log", "eval", "incr"} => stepTrace = StepOrder
    /\ optimSteps = entry.steps + Earlier + Count(stepTrace, "optim")
    /\ schedSteps = entry.steps + Earlier + Count(stepTrace, "sched")
    /\ emaUpdates = entry.steps + Earlier + Count(stepTrace, "ema")

C1_Witness ==
    /\ cfg.x_sharp /\ cfg.amp /\ iterNo = 2 /\ pc = "log"
    /\ stepTrace = StepOrder /\ optimSteps = entry.steps + 2
    /\ Finite

AfterSaf == {"po", "bank", "backward", "restore", "optim", "sched", "ema", "log", "eval", "incr"}

\* C2: in both modes the p and h the fairness loss is given are the ones the
\* adaptive-threshold loss returned in the same iteration, not the ones it was given.
C2_FairnessReadsFreshStats ==
    pc \in AfterSaf =>
        /\ satRet = StatsOf("sat", iterNo)
        /\ safArgs.p_t = satRet.p_t
        /\ safArgs.label_hist = satRet.label_hist
        /\ safArgs.p_t # satArgs.stats.p_t
        /\ safArgs.label_hist # satArgs.stats.label_hist

C2_Witness ==
    /\ cfg.x_sharp /\ iterNo = 2 /\ pc = "po"
    /\ satArgs.stats.p_t = Stat("sat", 1)
    /\ safArgs.p_t = Stat("sat", 2)
    /\ Finite

\* C3: in sharpness-aware mode the parameters the optimizer steps from equal the
\* parameters before the perturbation was applied.
C3_RestoreUndoesPerturb ==
    (cfg.x_sharp /\ pc = "optim") => params = theta0

\* C6 as claimed: when TRAIN ends after at least one iteration, the state after the
\* final iteration is in the 'last' checkpoint.
C6_FinalStateSaved ==
    (pc = "done" /\ iterNo > 0 /\ Finite /\ cfg.use_tb) =>
        (files.last.present /\ files.last.model = optimSteps)

\* the counter values of the iterations whose evaluation step has run
EvalsExpected ==
    {c \in entry.curr_iter..(curr_iter - 1) : (c + 1) % cfg.num_eval_iters = 0}
    \cup (IF (pc = "incr" \/ (pc = "error" /\ err = "tb"))
              /\ (curr_iter + 1) % cfg.num_eval_iters = 0
          THEN {curr_iter} ELSE {})

\* C6: an evaluation runs exactly in the iterations that get past the logging step
\* with (curr_iter + 1) % num_eval_iters = 0, and none runs when the loop ends: at the
\* end the 'last' checkpoint exists iff such an iteration ran, and it lacks the steps
\* of the iterations after the most recent one.
C6_EvalOnlyOnCadence ==
    /\ {evals[j].it : j \in 1..Len(evals)} = EvalsExpected
    /\ Len(evals) = Cardinality(EvalsExpected)
    /\ files.last.present = (evals # <<>>)
    /\ pc = "done" /\ files.last.present =>
          /\ files.last.curr_iter = evals[Len(evals)].it
          /\ files.last.model = optimSteps - (curr_iter - 1 - files.last.curr_iter)

C6_Witness ==
    /\ pc = "done" /\ iterNo = 2 /\ Len(evals) = 1
    /\ files.last.present /\ files.last.model = optimSteps - 1
    /\ Finite

\* the evaluations that beat the entry value and every evaluation before them
Improving ==
    {j \in 1..Len(evals) :
        /\ evals[j].acc > entry.best_test_acc
        /\ \A i \in 1..(j - 1) : evals[i].acc < evals[j].acc}
MaxOf(S) == CHOOSE a \in S : \A b \in S : b <= a

\* C7: every TRAIN evaluation writes 'last'; 'best' is written iff the accuracy is
\* strictly greater than best_test_acc; best_test_acc is the maximum of the value at
\* entry and the accuracies so far, best_test_iter the iteration that first reached
\* it, and the checkpoints of an evaluation hold the updated values.
C7_BestTracking ==
    /\ best_test_acc = MaxOf({evals[j].acc : j \in 1..Len(evals)} \cup {entry.best_test_acc})
    /\ Improving = {} => (best_test_iter = entry.best_test_iter /\ ~files.best.present)
    /\ Improving # {} =>
          LET j == MaxOf(Improving)
          IN /\ best_test_iter = evals[j].it
             /\ files.best.present
             /\ files.best.curr_iter = evals[j].it
             /\ files.best.best_test_iter = evals[j].it
             /\ files.best.best_test_acc = evals[j].acc
    /\ files.last.present = (evals # <<>>)
    /\ evals # <<>> =>
          /\ files.last.curr_iter = evals[Len(evals)].it
          /\ files.last.best_test_acc = best_test_acc
          /\ files.last.best_test_iter = best_test_iter

C7_Witness ==
    /\ Len(evals) = 3
    /\ evals[1].acc = 1 /\ evals[2].acc = 2 /\ evals[3].acc = 2
    /\ files.best.curr_iter = evals[2].it
    /\ files.last.curr_iter = evals[3].it
    /\ Finite

\* the last of the first n iterations of this run whose batch held sample i, or 0
LastVisit(i, n) ==
    MaxOf({m \in 1..n : \E j \in 1..Len(visits[m]) : visits[m][j] = i} \cup {0})
\* what the bank holds for sample i once the first n iterations have written it
ExpectedRow(i, n, view) ==
    IF LastVisit(i, n) = 0 THEN UniformRow
    ELSE LET m == LastVisit(i, n)
         IN [it |-> m, pass |-> 2, view |-> view,
             row |-> CHOOSE j \in 1..Len(visits[m]) : visits[m][j] = i, sm |-> TRUE]
\* the iterations whose bank write has run
BankWritten ==
    IF \/ pc \in {"forward1", "grad", "perturb", "forward2", "sat", "saf", "po", "bank"}
       \/ (pc = "error" /\ err \in {"assert", "norm"})
    THEN Earlier ELSE iterNo

\* C8 as claimed: in every mode the bank entries of the batch's indices hold this
\* iteration's probabilities once the losses are computed.
C8_BankWrittenInEveryMode ==
    pc \in {"backward", "restore", "optim", "sched", "ema", "log"} =>
        \A j \in 1..Len(idx) :
            label_bank_w[idx[j]].it = iterNo /\ label_bank_s[idx[j]].it = iterNo

\* C8: in sharpness-aware mode an iteration that gets to the end of its loss
\* computation overwrites the weak and strong bank entries of the batch's indices once
\* with its second-pass softmax rows and leaves every other entry; in plain mode,
\* and in an iteration that raises earlier, the bank is not written.
C8_BankOnlyInSharpMode ==
    \A i \in Samples :
        /\ label_bank_w[i] = IF cfg.x_sharp THEN ExpectedRow(i, BankWritten, "w") ELSE UniformRow
        /\ label_bank_s[i] = IF cfg.x_sharp THEN ExpectedRow(i, BankWritten, "s") ELSE UniformRow

C8_Witness ==
    /\ cfg.x_sharp /\ iterNo = 2 /\ pc = "backward"
    /\ visits = << <<2, 1>>, <<1>> >>
    /\ label_bank_w[2] = [it |-> 1, pass |-> 2, view |-> "w", row |-> 1, sm |-> TRUE]
    /\ label_bank_w[1] = [it |-> 2, pass |-> 2, view |-> "w", row |-> 1, sm |-> TRUE]
    /\ Finite

\* C9: the consistency term subtracts, for each row, what the bank held for the row's
\* sample before this iteration's overwrite: the row written at the sample's most
\* recent earlier visit in this run, or 1/C if there was none; the bank is still
\* unwritten when the term has been computed.
C9_PoReadsBeforeWrite ==
    pc \in {"bank", "backward", "restore", "optim", "sched", "ema", "log", "eval", "incr"}
    /\ cfg.x_sharp =>
        /\ Len(poArgs.prev_w) = Len(idx) /\ Len(poArgs.prev_s) = Len(idx)
        /\ \A j \in 1..Len(idx) :
              /\ poArgs.prev_w[j] = ExpectedRow(idx[j], Earlier, "w")
              /\ poArgs.prev_s[j] = ExpectedRow(idx[j], Earlier, "s")
              /\ pc = "bank" => /\ label_bank_w[idx[j]] = poArgs.prev_w[j]
                                /\ label_bank_s[idx[j]] = poArgs.prev_s[j]

C9_Witness ==
    /\ pc = "bank" /\ iterNo = 2
    /\ visits = << <<1>>, <<2, 1>> >>
    /\ poArgs.prev_w[1] = UniformRow
    /\ poArgs.prev_w[2] = [it |-> 1, pass |-> 2, view |-> "w", row |-> 1, sm |-> TRUE]
    /\ grad_w = <<Num(3), Num(4)>>

\* C10: in sharpness-aware mode every logit tensor given to the adaptive-threshold
\* loss, the fairness loss and the consistency term comes from the second pass.
C10_SecondPassLogitsOnly ==
    (cfg.x_sharp /\ pc = "bank" /\ grad_w = <<Num(3), Num(4)>>) =>
        /\ satArgs.logits_w.pass = 2 /\ satArgs.logits_s.pass = 2
        /\ safArgs.logits_s.pass = 2
        /\ poArgs.g.pass = 2 /\ poArgs.s.pass = 2

\* the first-pass gradient is degenerate: every entry None, or a zero global norm
Degenerate(g) == NormRaises(g) \/ Norm(g) = Num(0)

\* C11: in sharpness-aware mode a degenerate first-pass gradient raises no error and
\* the perturbation step leaves every parameter as it was, adding no NaN or Inf.
C11_DegenerateGradientSkipped ==
    (cfg.x_sharp /\ Degenerate(grad_w)) =>
        /\ ~(pc = "error" /\ err = "norm")
        /\ pc = "perturb" => \A i \in ParamIds : eps[i].k = "none" \/ eps[i] = Num(0)
        /\ pc = "forward2" => (params = theta0 /\ Finite)

\* C12: in sharpness-aware mode a forward pass at perturbed weights never runs with
\* running-statistics tracking enabled, and the first forward pass of every iteration
\* runs at unperturbed weights with tracking enabled, also when the previous iteration
\* left tracking disabled and ran an evaluation.
C12_TrackingOffOnlyWhilePerturbed ==
    cfg.x_sharp =>
        /\ \A j \in 1..Len(fwd) : fwd[j].perturbed => ~fwd[j].tracking
        /\ \A j \in 1..Len(fwd) : fwd[j].pass = 1 => (fwd[j].tracking /\ ~fwd[j].perturbed)
        /\ \A j \in 1..Len(fwd) : fwd[j].pass = 2 => fwd[j].perturbed
        /\ pc \in {"grad", "perturb", "forward2"} => (Len(fwd) = 1 /\ fwd[1].pass = 1)
        /\ pc \in AfterSaf \cup {"sat", "saf"} =>
              (Len(fwd) = 2 /\ fwd[1].pass = 1 /\ fwd[2].pass = 2)

C12_Witness ==
    /\ cfg.x_sharp /\ iterNo = 2 /\ pc = "sat"
    /\ Len(evals) = 1 /\ evals[1].it = curr_iter - 1
    /\ fwd[1].tracking /\ ~fwd[2].tracking
    /\ Finite

\* C13: in sharpness-aware mode the gradient the optimizer step has applied to a
\* parameter is the first-pass gradient plus the second-pass gradient (1 in the unit
\* of Backward), both unscaled, with AMP enabled as well as disabled.
C13_FusedGradientSameScale ==
    (cfg.x_sharp /\ pc = "sched" /\ iterNo = 1 /\ grad_w = <<Num(3), Num(4)>>) =>
        \A i \in ParamIds : applied[i] = VAdd(grad_w[i], Num(1))

\* C14, for plain mode: train() never starts an iteration with the counter at or over
\* the budget, no iteration whose batch sizes agree ends in an error, and when the
\* loop has ended the counter has grown by one for each batch pair it was given
\* under the budget.
C14_PlainRunCompletes ==
    ~cfg.x_sharp =>
        /\ pc \notin {"train", "fetch", "done"} => curr_iter < cfg.num_train_iters
        /\ pc = "error" => err = "assert"
        /\ pc = "done" => curr_iter = entry.curr_iter + iterNo

\* C15: an iteration whose weak and strong unlabeled batches differ in size stops with
\* the assertion error before any forward pass and before any update step, and the
\* step that raises leaves the statistics, the bank, the parameters, the optimizer,
\* schedule and EMA state and the counter as they were; no later step runs.
C15_SizeMismatchFailsFast ==
    /\ [](~sizes_equal => (pc = "error" /\ err = "assert" /\ fwd = <<>> /\ stepTrace = <<>>))
    /\ [][(~sizes_equal') =>
            UNCHANGED <<stats, label_bank_w, label_bank_s, params, pgrad, optimSteps,
                        schedSteps, emaUpdates, curr_iter, files>>]_vars

C15_Witness ==
    /\ ~sizes_equal /\ pc = "error" /\ err = "assert"
    /\ cfg.x_sharp /\ iterNo = 2 /\ curr_iter = entry.curr_iter + 1
    /\ stats = StatsOf("sat", 1) /\ label_bank_w[1].it = 1
    /\ Finite

\* C18: in both modes an iteration that reaches the logging step has assigned the
\* consistency loss it logs, and no iteration stops there with an unassigned name.
C18_LoggedLossAssigned ==
    /\ pc = "log" => loss_po
    /\ ~(pc = "error" /\ err = "loss_po")

\* C19: in a run started fresh, the counter stored in a checkpoint equals the number
\* of optimizer, schedule and EMA steps in the states stored with it.
C19_CheckpointCounterMatchesSteps ==
    (~cfg.cont_train /\ cfg.use_tb /\ Finite) =>
        \A f \in {files.best, files.last} :
            f.present => (f.curr_iter = f.optim /\ f.curr_iter = f.sched /\ f.curr_iter = f.ema)

\* ------------------------------------------------------------- properties of __init__
\* C4: a trainer constructed with resume starts TRAIN with the counter, the best
\* accuracy and iteration and the statistics of the checkpoint, whatever the warmup
\* budget.
C4_ResumeRestores ==
    (pc = "ready" /\ cfg.cont_train) =>
        /\ curr_iter = ckpt.curr_iter
        /\ best_test_acc = ckpt.best_test_acc
        /\ best_test_iter = ckpt.best_test_iter
        /\ stats = ckpt.stats

\* C5: after a warmup phase of a fresh trainer, however it ended, the counter is 0
\* when the constructor returns.
C5_WarmupEndsAtZero ==
    (pc = "ready" /\ ~cfg.cont_train /\ cfg.num_warmup_iters > 0) => curr_iter = 0

\* the optimizer steps the model held when the constructor started, and the warmup
\* iterations completed so far
StepsAtCtor == IF cfg.cont_train THEN ckpt.optim ELSE 0
WarmupDone == optimSteps - StepsAtCtor - (IF pc = "w_stats" THEN 1 ELSE 0)

\* C16: once a warmup iteration has completed, tau, p and h are the ones computed over
\* the test loader with the weights left by the last completed warmup iteration, and
\* nothing of the initial or loaded statistics is left; before that they are the
\* initial or loaded ones.
C16_WarmupOverwritesStats ==
    pc # "ctor" =>
        /\ WarmupDone > 0 => stats = StatsOf("warmup", StepsAtCtor + WarmupDone)
        /\ WarmupDone = 0 => stats = (IF cfg.cont_train THEN ckpt.stats ELSE InitStats)

C16_Witness ==
    /\ pc = "ready" /\ cfg.cont_train /\ WarmupDone = 2
    /\ ckpt.stats = StatsOf("ckpt", 0)
    /\ stats = StatsOf("warmup", 3)

\* C17: a fresh trainer with num_warmup_iters = 0 never enters the warmup loop or the
\* evaluation after it, takes no optimizer step and no labeled batch, and returns from
\* the constructor with curr_iter = 0 and tau, p, h at the uniform initial values.
C17_ZeroWarmupSkipped ==
    (~cfg.cont_train /\ cfg.num_warmup_iters = 0) =>
        /\ pc \in {"ctor", "toggle", "ready"}
        /\ curr_iter = 0 /\ stats = InitStats
        /\ optimSteps = 0 /\ lbFetched = 0
        /\ training

C17_Witness ==
    /\ pc = "ready" /\ ~cfg.cont_train /\ cfg.num_warmup_iters = 0
    /\ curr_iter = 0 /\ stats = InitStats /\ optimSteps = 0

\* C20: every warmup gradient step starts and ends with the model in train mode.
C20_WarmupStepsInTrainMode ==
    pc \in {"w_step", "w_stats"} => training

=============================================================================
